---- MODULE Spec2Model ----
(***************************************************************************)
(* Database GURU: the session state machine of AppComponent                *)
(* (src/src/app.component.ts) driving GeminiService (src/unnamed/part_000) *)
(* and the history list persisted in localStorage.                         *)
(*                                                                         *)
(* Text is a sequence of characters or of message tokens, so trim(),       *)
(* includes() and string concatenation are computed.  A nullable value is  *)
(* a sequence of length at most one: Null is null, Some(v) is v.           *)
(*                                                                         *)
(* A step is what runs between two events of the browser's event loop: a   *)
(* handler up to its first await on the network, or the continuation of    *)
(* generate() when a chunk, the end of the stream, an answer or a failure  *)
(* arrives.  No handler checks the loading flag except generate(), so the  *)
(* user's events interleave with a generation in progress.                 *)
(***************************************************************************)
EXTENDS Naturals, Sequences, FiniteSets, TLC

VARIABLES
    selectedFeature,     \* signal selectedFeature
    selectedDb,          \* signal selectedDb
    schemaContext,       \* signal schemaContext
    uploadedFileName,    \* signal uploadedFileName
    userInput,           \* signal userInput
    output,              \* signal output
    optimizationResult,  \* signal optimizationResult (nullable)
    loading,             \* signal loading
    error,               \* signal error (nullable)
    history,             \* signal history, newest entry first
    storage,             \* localStorage slot 'db_guru_history' (nullable text)
    ai,                  \* GeminiService.ai is set (the API key was present)
    now,                 \* the latest reading of Date.now()
    gen,                 \* the running generate() call: its position and locals
    delivered,           \* fragments the remote stream has yielded to this call
    outstanding,         \* requests issued to the remote service and not yet ended
    request,             \* the request the running call has issued (nullable)
    edits,               \* user events so far (bounded by MaxEdits)
    base,                \* length of the history when it was last loaded or cleared
    appended             \* successful generations since then

vars == <<selectedFeature, selectedDb, schemaContext, uploadedFileName,
          userInput, output, optimizationResult, loading, error, history,
          storage, ai, now, gen, delivered, outstanding, request, edits,
          base, appended>>

session == <<selectedFeature, selectedDb, schemaContext, uploadedFileName,
             userInput, output, optimizationResult, loading, error>>

-----------------------------------------------------------------------------
(* Bounds of the model *)

MaxHistory == 2
MaxFragments == 2
MaxClock == 2
MaxEdits == 2

-----------------------------------------------------------------------------
(* Values *)

Null == <<>>
Some(v) == <<v>>

features == <<"NL-to-SQL", "Optimize Query", "Design Schema", "Explain SQL",
              "Analyze & Suggest">>
databases == <<"PostgreSQL", "MySQL", "SQL Server", "Oracle", "SQLite">>

\* What the user picks and types in the runs explored.
FeatureInputs == {features[1], features[2]}
DbInputs == {databases[1], databases[2]}
UserInputs == {<<" ">>, <<"q">>}
ContextInputs == {<<"s">>}
FileNames == {<<"f">>}

\* What the remote service answers in the runs explored: the k-th chunk of
\* a stream carries the k-th letter, so that the order of the chunks shows
\* in the output.
Letters == <<"a", "b", "c", "d", "e", "f">>
FullResultText == "{summary,recommendations,optimizedQuery}"
ResponseTexts == {"", "oops", "null", "{summary}", FullResultText}
RemoteFailures == {<<"token count exceeds">>, <<"400">>, <<"net">>}

RequiredFields == {"summary", "recommendations", "optimizedQuery"}

-----------------------------------------------------------------------------
(* Text *)

IsSpace(c) == c = " "

RECURSIVE TrimStart(_)
TrimStart(s) ==
    IF s # <<>> /\ IsSpace(Head(s)) THEN TrimStart(Tail(s)) ELSE s

RECURSIVE TrimEnd(_)
TrimEnd(s) ==
    IF s # <<>> /\ IsSpace(s[Len(s)]) THEN TrimEnd(SubSeq(s, 1, Len(s) - 1))
    ELSE s

\* String.prototype.trim
Trim(s) == TrimEnd(TrimStart(s))

\* String.prototype.includes
Includes(s, sub) ==
    \E i \in 0..Len(s) :
        /\ i + Len(sub) <= Len(s)
        /\ SubSeq(s, i + 1, i + Len(sub)) = sub

\* The fragments of a stream, joined in order.
RECURSIVE Concat(_)
Concat(frags) ==
    IF frags = <<>> THEN <<>> ELSE Head(frags) \o Concat(Tail(frags))

-----------------------------------------------------------------------------
(* JSON *)

SyntaxError == [ok |-> FALSE]

\* JSON.parse of a response text of the remote service.  An object is a
\* record of its fields, JSON null is Null.
JsonParse(text) ==
    CASE text = "null" -> [ok |-> TRUE, value |-> Null]
      [] text = "{summary}" -> [ok |-> TRUE, value |-> Some([summary |-> "s"])]
      [] text = FullResultText ->
            [ok |-> TRUE,
             value |-> Some([summary |-> "s", recommendations |-> <<>>,
                             optimizedQuery |-> "q"])]
      [] OTHER -> SyntaxError

\* The OptimizationResult interface: all three fields are present.
IsOptimizationResult(r) == r # Null /\ RequiredFields \subseteq DOMAIN r[1]

\* JSON.stringify of the history list, and the text of a slot that is not
\* JSON.  An entry holds strings, a number, null and plain objects only,
\* which JSON.parse gives back as they were.
Stringify(h) == [json |-> TRUE, value |-> h]
GarbageText == [json |-> FALSE, value |-> <<>>]

\* JSON.parse of the text of the storage slot.
ParseStored(text) ==
    IF text.json THEN [ok |-> TRUE, value |-> text.value] ELSE SyntaxError

-----------------------------------------------------------------------------
(* GeminiService *)

NotInitializedMsg == <<"Gemini service is not initialized.">>
StreamFailedMsg == <<"Failed to generate streaming response from AI.">>
EmptyResponseMsg == <<"Received an empty response from the AI.">>
ParseFailedMsg == <<"Failed to parse structured response from AI.">>
SyntaxErrorMsg == <<"Unexpected token in JSON">>

Return(v) == [ok |-> TRUE, value |-> v]
Throw(message) == [ok |-> FALSE, message |-> message]

\* What the remote service does with a request: it answers with a text, or
\* the call fails with a message.
Answer(text) == [kind |-> "text", text |-> text]
Failed(message) == [kind |-> "fail", message |-> message]

\* The try block of generateStructured: the awaited call, the check for an
\* empty text, JSON.parse.
StructuredTry(remote) ==
    IF remote.kind = "fail" THEN Throw(remote.message)
    ELSE IF remote.text = "" THEN Throw(EmptyResponseMsg)
    ELSE IF JsonParse(remote.text).ok THEN Return(JsonParse(remote.text).value)
    ELSE Throw(SyntaxErrorMsg)

\* generateStructured once the client is known to be set: whatever the try
\* block throws is caught, logged and replaced.
GenerateStructured(remote) ==
    IF StructuredTry(remote).ok THEN StructuredTry(remote)
    ELSE Throw(ParseFailedMsg)

\* The catch block of generateStream: whatever the remote stream throws is
\* caught, logged and replaced.
StreamCatch(message) == Throw(StreamFailedMsg)

\* The check left out.
InitializedUnchecked == TRUE

\* The check both calls make first: the client is set.
Initialized == ai

\* getPrompts.  A text is the sequence of its pieces: a fixed phrase and a
\* database name are one piece each, the input and the context are spelled
\* out character by character, so that one text including another is
\* computed.  A line of three backquotes is the piece "[fence]".
ContextHeader ==
    <<"You MUST use the following provided context. CONTEXT:", "[fence]">>
ContextFooter == <<"[fence]">>

ContextPreamble(context) ==
    IF Trim(context) # <<>> THEN ContextHeader \o context \o ContextFooter
    ELSE <<>>

Quote == <<"\"">>

GetPrompts(feature, db, input, context) ==
    CASE feature = "NL-to-SQL" ->
            [systemInstruction |->
                 <<"You are a SQL expert specializing in ", db>>,
             userPrompt |->
                 ContextPreamble(context)
                     \o <<"Convert the following request into a ", db,
                          " SQL query: ">> \o Quote \o input \o Quote,
             schema |-> Null]
      [] feature = "Optimize Query" ->
            [systemInstruction |->
                 <<"You are a performance tuning specialist for ", db>>,
             userPrompt |->
                 ContextPreamble(context)
                     \o <<"Please analyze and suggest optimizations for this ",
                          db, " SQL query: ">> \o input,
             schema |-> Some(RequiredFields)]
      [] feature = "Design Schema" ->
            [systemInstruction |->
                 <<"You are a database architect specializing in ", db>>,
             userPrompt |->
                 <<"Design a ", db,
                   " schema for the following requirements: ">>
                     \o Quote \o input \o Quote,
             schema |-> Null]
      [] feature = "Explain SQL" ->
            [systemInstruction |->
                 <<"You are a SQL expert specializing in ", db,
                   ". Explain a given SQL query.">>,
             userPrompt |->
                 ContextPreamble(context)
                     \o <<"Please explain this ", db,
                          " SQL query step-by-step: ">> \o input,
             schema |-> Null]
      [] feature = "Analyze & Suggest" ->
            [systemInstruction |->
                 <<"You are a data analyst and database architect for ", db>>,
             userPrompt |->
                 ContextPreamble(context)
                     \o <<"Based on the provided context, please analyze and ",
                          "provide suggestions for the following request: ">>
                     \o Quote \o input \o Quote,
             schema |-> Null]
      [] OTHER ->
            [systemInstruction |-> <<"You are a helpful assistant.">>,
             userPrompt |-> input, schema |-> Null]

\* The request generateStream hands to generateContentStream.
StreamRequest(feature, db, input, context) ==
    [call |-> "generateContentStream",
     contents |-> GetPrompts(feature, db, input, context).userPrompt,
     systemInstruction |->
         GetPrompts(feature, db, input, context).systemInstruction,
     responseSchema |-> Null]

\* The request generateStructured hands to generateContent.
StructuredRequest(db, input, context) ==
    [call |-> "generateContent",
     contents |-> GetPrompts("Optimize Query", db, input, context).userPrompt,
     systemInstruction |->
         GetPrompts("Optimize Query", db, input, context).systemInstruction,
     responseSchema |-> GetPrompts("Optimize Query", db, input, context).schema]

-----------------------------------------------------------------------------
(* AppComponent: helpers *)

GenericPrefix == <<"An error occurred while communicating with the AI: ">>
ContextTooLargeMsg == <<"Error: The provided context is too large.">>
FileErrorMsg == <<"Error reading file: ">>

\* The catch block of generate(): the message shown for a thrown Error.
DisplayMessage(rawMessage) ==
    IF Includes(rawMessage, <<"token count exceeds">>)
       \/ Includes(rawMessage, <<"400">>)
    THEN ContextTooLargeMsg
    ELSE GenericPrefix \o rawMessage

NoGen == [pc |-> "idle", feature |-> "", db |-> "", input |-> <<>>,
          schema |-> <<>>, fileName |-> <<>>]

\* The locals generate() reads from the signals on entering its try block.
\* generate() keeps no local of the file name: fileName records what the
\* uploadedFileName signal held at that moment, and no action reads it.
Locals(pc) == [pc |-> pc, feature |-> selectedFeature, db |-> selectedDb,
               input |-> userInput, schema |-> schemaContext,
               fileName |-> uploadedFileName]

\* The object generate() hands to addToHistory.
Item(g, fileName, finalOutput, finalOptimizationResult) ==
    [feature |-> g.feature, db |-> g.db, userInput |-> g.input,
     schemaContext |-> g.schema, uploadedFileName |-> fileName,
     output |-> finalOutput, optimizationResult |-> finalOptimizationResult]

\* The item put after the current entries.
PutLast(item, id, h) == h \o <<[id |-> id] @@ item>>

\* addToHistory: the item with its id, put before the current entries.
Prepend(item, id, h) == <<[id |-> id] @@ item>> \o h

\* saveHistoryToStorage, had it written the newest entry alone.
SaveNewestToStorage(h, writes, slot) ==
    IF writes THEN Some(Stringify(<<h[1]>>)) ELSE slot

\* saveHistoryToStorage: the slot after the write; a setItem that throws
\* (quota) is caught and leaves the slot as it was.
SaveHistoryToStorage(h, writes, slot) ==
    IF writes THEN Some(Stringify(h)) ELSE slot

\* loadHistoryFromStorage: the history after the load.
LoadHistoryFromStorage(h, slot) ==
    IF slot = Null THEN h
    ELSE IF ParseStored(slot[1]).ok THEN ParseStored(slot[1]).value
    ELSE <<>>

-----------------------------------------------------------------------------
(* The state after construction *)

\* An entry an earlier visit left in the storage slot.
OldEntry ==
    [id |-> 0, feature |-> features[1], db |-> databases[1],
     userInput |-> <<"q">>, schemaContext |-> <<>>, uploadedFileName |-> <<>>,
     output |-> <<"a">>, optimizationResult |-> Null]

\* An entry an earlier visit left there for an Optimize Query.
OldResultEntry ==
    [id |-> 0, feature |-> features[2], db |-> databases[1],
     userInput |-> <<"q">>, schemaContext |-> <<>>, uploadedFileName |-> <<>>,
     output |-> <<>>, optimizationResult |-> JsonParse(FullResultText).value]

InitialSlots ==
    {Null, Some(GarbageText), Some(Stringify(<<OldEntry>>)),
     Some(Stringify(<<OldResultEntry>>))}

Init ==
    /\ selectedFeature = features[1]
    /\ selectedDb = databases[1]
    /\ schemaContext = <<>>
    /\ uploadedFileName = <<>>
    /\ userInput = <<>>
    /\ output = <<>>
    /\ optimizationResult = Null
    /\ loading = FALSE
    /\ error = Null
    /\ storage \in InitialSlots
    /\ history = LoadHistoryFromStorage(<<>>, storage)
    /\ ai \in BOOLEAN
    /\ now = 1
    /\ gen = NoGen
    /\ delivered = <<>>
    /\ outstanding = 0
    /\ request = Null
    /\ edits = 0
    /\ base = Len(history)
    /\ appended = 0

-----------------------------------------------------------------------------
(* The user's events *)

\* One more user event, within the bound.
Edit == edits < MaxEdits /\ edits' = edits + 1

\* A reload of the page: the fields' initializers, then the constructor.
Constructor ==
    /\ Edit
    /\ selectedFeature' = features[1]
    /\ selectedDb' = databases[1]
    /\ schemaContext' = <<>>
    /\ uploadedFileName' = <<>>
    /\ userInput' = <<>>
    /\ output' = <<>>
    /\ optimizationResult' = Null
    /\ loading' = FALSE
    /\ error' = Null
    /\ history' = LoadHistoryFromStorage(<<>>, storage)
    /\ gen' = NoGen
    /\ delivered' = <<>>
    /\ outstanding' = 0
    /\ request' = Null
    /\ base' = Len(history')
    /\ appended' = 0
    /\ UNCHANGED <<storage, ai, now>>

\* The form's two-way bindings.
SetUserInput(s) ==
    /\ Edit
    /\ userInput' = s
    /\ UNCHANGED <<selectedFeature, selectedDb, schemaContext, uploadedFileName,
                   output, optimizationResult, loading, error, history,
                   storage, ai, now, gen, delivered, outstanding, request,
                   base, appended>>

SetSelectedDb(d) ==
    /\ Edit
    /\ selectedDb' = d
    /\ UNCHANGED <<selectedFeature, schemaContext, uploadedFileName, userInput,
                   output, optimizationResult, loading, error, history,
                   storage, ai, now, gen, delivered, outstanding, request,
                   base, appended>>

SetSchemaContext(s) ==
    /\ Edit
    /\ schemaContext' = s
    /\ UNCHANGED <<selectedFeature, selectedDb, uploadedFileName, userInput,
                   output, optimizationResult, loading, error, history,
                   storage, ai, now, gen, delivered, outstanding, request,
                   base, appended>>

\* selectFeature without its call of clearSchemaContext.
SelectFeatureKeepingContext(feature) ==
    /\ Edit
    /\ selectedFeature' = feature
    /\ userInput' = <<>>
    /\ output' = <<>>
    /\ optimizationResult' = Null
    /\ error' = Null
    /\ UNCHANGED <<selectedDb, schemaContext, uploadedFileName, loading,
                   history, storage, ai, now, gen, delivered, outstanding,
                   request, base, appended>>

SelectFeature(feature) ==
    /\ Edit
    /\ selectedFeature' = feature
    /\ userInput' = <<>>
    /\ output' = <<>>
    /\ optimizationResult' = Null
    /\ error' = Null
    /\ schemaContext' = <<>>
    /\ uploadedFileName' = <<>>
    /\ UNCHANGED <<selectedDb, loading, history, storage, ai, now, gen,
                   delivered, outstanding, request, base, appended>>

\* onFileSelected, when the FileReader has read the file.
ReaderOnLoad(text, name) ==
    /\ Edit
    /\ schemaContext' = text
    /\ uploadedFileName' = name
    /\ UNCHANGED <<selectedFeature, selectedDb, userInput, output,
                   optimizationResult, loading, error, history, storage, ai,
                   now, gen, delivered, outstanding, request, base, appended>>

\* onFileSelected, when the FileReader has failed.
ReaderOnError ==
    /\ Edit
    /\ error' = Some(FileErrorMsg)
    /\ UNCHANGED <<selectedFeature, selectedDb, schemaContext, uploadedFileName,
                   userInput, output, optimizationResult, loading, history,
                   storage, ai, now, gen, delivered, outstanding, request,
                   base, appended>>

ClearSchemaContext ==
    /\ Edit
    /\ schemaContext' = <<>>
    /\ uploadedFileName' = <<>>
    /\ UNCHANGED <<selectedFeature, selectedDb, userInput, output,
                   optimizationResult, loading, error, history, storage, ai,
                   now, gen, delivered, outstanding, request, base, appended>>

\* loadHistoryItem without its error.set(null).
LoadHistoryItemKeepingError(item) ==
    /\ Edit
    /\ selectedFeature' = item.feature
    /\ selectedDb' = item.db
    /\ userInput' = item.userInput
    /\ schemaContext' = item.schemaContext
    /\ uploadedFileName' = item.uploadedFileName
    /\ output' = item.output
    /\ optimizationResult' = item.optimizationResult
    /\ UNCHANGED <<error, loading, history, storage, ai, now, gen, delivered,
                   outstanding, request, base, appended>>

LoadHistoryItem(item) ==
    /\ Edit
    /\ selectedFeature' = item.feature
    /\ selectedDb' = item.db
    /\ userInput' = item.userInput
    /\ schemaContext' = item.schemaContext
    /\ uploadedFileName' = item.uploadedFileName
    /\ output' = item.output
    /\ optimizationResult' = item.optimizationResult
    /\ error' = Null
    /\ UNCHANGED <<loading, history, storage, ai, now, gen, delivered,
                   outstanding, request, base, appended>>

\* clearHistory without its removeItem.
ClearHistoryKeepingSlot(confirmed) ==
    /\ Edit
    /\ IF confirmed
       THEN /\ history' = <<>>
            /\ base' = 0
            /\ appended' = 0
            /\ UNCHANGED storage
       ELSE UNCHANGED <<history, storage, base, appended>>
    /\ UNCHANGED <<selectedFeature, selectedDb, schemaContext, uploadedFileName,
                   userInput, output, optimizationResult, loading, error, ai,
                   now, gen, delivered, outstanding, request>>

\* clearHistory; confirmed is the user's answer to confirm().
ClearHistory(confirmed) ==
    /\ Edit
    /\ IF confirmed
       THEN /\ history' = <<>>
            /\ storage' = Null
            /\ base' = 0
            /\ appended' = 0
       ELSE UNCHANGED <<history, storage, base, appended>>
    /\ UNCHANGED <<selectedFeature, selectedDb, schemaContext, uploadedFileName,
                   userInput, output, optimizationResult, loading, error, ai,
                   now, gen, delivered, outstanding, request>>

-----------------------------------------------------------------------------
(* generate() *)

\* The guard without its trim of the input.
CanGenerateUntrimmed == ~(userInput = <<>> \/ loading)

\* The guard without its check of the loading flag.
CanGenerateIgnoringLoading == ~(Trim(userInput) = <<>>)

\* The guard of generate(): past its early return.
CanGenerate == ~(Trim(userInput) = <<>> \/ loading)

\* The update of the output signal for one chunk of the stream.
AppendChunk(current, chunk) == current \o chunk

\* generate() returning at once.
GenerateReturn ==
    /\ ~CanGenerate
    /\ UNCHANGED vars

\* generate() with the client not set: the service throws before any
\* request, and the catch and finally blocks run before any other event.
GenerateUninitialized ==
    /\ CanGenerate
    /\ ~Initialized
    /\ output' = <<>>
    /\ optimizationResult' = Null
    /\ error' = Some(DisplayMessage(NotInitializedMsg))
    /\ loading' = FALSE
    /\ UNCHANGED <<selectedFeature, selectedDb, schemaContext, uploadedFileName,
                   userInput, history, storage, ai, now, gen, delivered,
                   outstanding, request, edits, base, appended>>

\* generate() up to its first await: the signals are reset, the locals read
\* and the request issued.
GenerateStart ==
    /\ CanGenerate
    /\ Initialized
    /\ Len(history) < MaxHistory
    /\ loading' = TRUE
    /\ output' = <<>>
    /\ optimizationResult' = Null
    /\ error' = Null
    /\ gen' = Locals(IF selectedFeature = "Optimize Query" THEN "structured"
                     ELSE "stream")
    /\ delivered' = <<>>
    /\ outstanding' = outstanding + 1
    /\ request' =
           Some(IF selectedFeature = "Optimize Query"
                THEN StructuredRequest(selectedDb, userInput, schemaContext)
                ELSE StreamRequest(selectedFeature, selectedDb, userInput,
                                   schemaContext))
    /\ UNCHANGED <<selectedFeature, selectedDb, schemaContext, uploadedFileName,
                   userInput, history, storage, ai, now, edits, base,
                   appended>>

\* addToHistory, had it written the slot first and given up on a failed
\* write.
AddToHistoryIfSaved(item) ==
    \E t \in {now, now + 1} \cap (0..MaxClock), writes \in BOOLEAN :
        /\ now' = t
        /\ history' = IF writes THEN Prepend(item, t, history) ELSE history
        /\ storage' = SaveHistoryToStorage(history', writes, storage)
        /\ appended' = appended + 1
        /\ UNCHANGED base

\* addToHistory(item), with the reading of Date.now() and whether setItem
\* succeeds.
AddToHistory(item) ==
    \E t \in {now, now + 1} \cap (0..MaxClock), writes \in BOOLEAN :
        /\ now' = t
        /\ history' = Prepend(item, t, history)
        /\ storage' = SaveHistoryToStorage(history', writes, storage)
        /\ appended' = appended + 1
        /\ UNCHANGED base

\* The end of the request without the finally block's loading.set(false).
FinallyKeepingLoading ==
    /\ UNCHANGED loading
    /\ gen' = NoGen
    /\ delivered' = <<>>
    /\ outstanding' = outstanding - 1
    /\ request' = Null

\* The finally block, and the end of the request.
Finally ==
    /\ loading' = FALSE
    /\ gen' = NoGen
    /\ delivered' = <<>>
    /\ outstanding' = outstanding - 1
    /\ request' = Null

\* The catch block, had the save to the history been placed after the try.
CatchThenSave(thrown) ==
    /\ error' = Some(DisplayMessage(thrown.message))
    /\ history' = Prepend(Item(gen, uploadedFileName, output, Null), now,
                          history)
    /\ storage' = SaveHistoryToStorage(history', TRUE, storage)
    /\ UNCHANGED <<now, base, appended>>

\* The catch block.
Catch(thrown) ==
    /\ error' = Some(DisplayMessage(thrown.message))
    /\ UNCHANGED <<history, storage, now, base, appended>>

\* The text of the k-th chunk of a stream.
Fragment(k) == <<Letters[k]>>

\* The stream yields one more chunk.
StreamChunk(chunk) ==
    /\ gen.pc = "stream"
    /\ Len(delivered) < MaxFragments
    /\ output' = AppendChunk(output, chunk)
    /\ delivered' = Append(delivered, chunk)
    /\ UNCHANGED <<selectedFeature, selectedDb, schemaContext, uploadedFileName,
                   userInput, optimizationResult, loading, error, history,
                   storage, ai, now, gen, outstanding, request, edits, base,
                   appended>>

\* The stream ends: the loop exits and the entry is saved.
StreamEnd ==
    /\ gen.pc = "stream"
    /\ AddToHistory(Item(gen, uploadedFileName, output, Null))
    /\ Finally
    /\ UNCHANGED <<selectedFeature, selectedDb, schemaContext, uploadedFileName,
                   userInput, output, optimizationResult, error, ai, edits>>

\* The stream fails, on opening or between chunks.
StreamFail(message) ==
    /\ gen.pc = "stream"
    /\ Catch(StreamCatch(message))
    /\ Finally
    /\ UNCHANGED <<selectedFeature, selectedDb, schemaContext, uploadedFileName,
                   userInput, output, optimizationResult, ai, edits>>

\* The structured call settles: the remote service has answered or failed.
StructuredSettled(remote) ==
    /\ gen.pc = "structured"
    /\ IF GenerateStructured(remote).ok
       THEN /\ optimizationResult' = GenerateStructured(remote).value
            /\ AddToHistory(Item(gen, uploadedFileName, <<>>,
                                 GenerateStructured(remote).value))
            /\ UNCHANGED error
       ELSE /\ Catch(GenerateStructured(remote))
            /\ UNCHANGED optimizationResult
    /\ Finally
    /\ UNCHANGED <<selectedFeature, selectedDb, schemaContext, uploadedFileName,
                   userInput, output, ai, edits>>

-----------------------------------------------------------------------------
(* The specification *)

Remotes ==
    {Answer(text) : text \in ResponseTexts}
        \cup {Failed(message) : message \in RemoteFailures}

Next ==
    \/ Constructor
    \/ \E s \in UserInputs : SetUserInput(s)
    \/ \E d \in DbInputs : SetSelectedDb(d)
    \/ \E s \in ContextInputs : SetSchemaContext(s)
    \/ \E f \in FeatureInputs : SelectFeature(f)
    \/ \E text \in ContextInputs, name \in FileNames : ReaderOnLoad(text, name)
    \/ ReaderOnError
    \/ ClearSchemaContext
    \/ \E i \in 1..Len(history) : LoadHistoryItem(history[i])
    \/ \E confirmed \in BOOLEAN : ClearHistory(confirmed)
    \/ GenerateReturn
    \/ GenerateUninitialized
    \/ GenerateStart
    \/ StreamChunk(Fragment(Len(delivered) + 1))
    \/ StreamEnd
    \/ \E message \in RemoteFailures : StreamFail(message)
    \/ \E remote \in Remotes : StructuredSettled(remote)

Spec == Init /\ [][Next]_vars

-----------------------------------------------------------------------------
(* Steps of a generation attempt *)

\* An attempt ends in failure: the client is not set, the stream fails, or
\* the structured call fails, answers nothing or answers what is not JSON.
FailedAttempt ==
    \/ GenerateUninitialized
    \/ \E message \in RemoteFailures : StreamFail(message)
    \/ \E remote \in Remotes :
          ~GenerateStructured(remote).ok /\ StructuredSettled(remote)

\* An attempt ends in success.
SucceededAttempt ==
    \/ StreamEnd
    \/ \E remote \in Remotes :
          GenerateStructured(remote).ok /\ StructuredSettled(remote)

-----------------------------------------------------------------------------
(* C1 *)

\* C1: generate() called while a generation is in progress issues no
\* request and changes none of output, error, optimizationResult, loading
\* and history; at most one request is outstanding at any time.
C1_GenerateWhileLoadingIsNoop ==
    /\ [](outstanding <= 1)
    /\ [][(loading /\ (GenerateReturn \/ GenerateStart \/ GenerateUninitialized))
            => UNCHANGED <<output, error, optimizationResult, loading, history,
                           outstanding>>]_vars

\* A generation is in progress and the input is not blank: only the loading
\* flag stands between a second generate() and a second request.
C1_Witness ==
    loading /\ Trim(userInput) # <<>> /\ outstanding = 1 /\ output # <<>>

-----------------------------------------------------------------------------
(* C2 *)

\* C2: every history entry of a feature other than Optimize Query has a
\* non-empty output and no optimizationResult.
C2_StreamEntryHasOutput ==
    \A i \in 1..Len(history) :
        history[i].feature # "Optimize Query"
            => history[i].output # <<>> /\ history[i].optimizationResult = Null

-----------------------------------------------------------------------------
(* C3 *)

\* C3: every history entry of the Optimize Query feature has an empty
\* output and an optimizationResult with its three required fields.
C3_StructuredEntryHasResult ==
    \A i \in 1..Len(history) :
        history[i].feature = "Optimize Query"
            => /\ history[i].output = <<>>
               /\ IsOptimizationResult(history[i].optimizationResult)

-----------------------------------------------------------------------------
(* C4 *)

\* C4: starting from an empty history, after N successful generations and
\* no clear the history has N entries; each success puts exactly one entry
\* at the head and leaves the entries already there, and their order, as
\* they were.
C4_SuccessPrependsOne ==
    /\ [](base = 0 => Len(history) = appended)
    /\ [][SucceededAttempt
            => /\ Len(history') = Len(history) + 1
               /\ Tail(history') = history]_vars

\* Two generations have succeeded on a history that started empty.
C4_Witness ==
    /\ base = 0
    /\ appended = 2
    /\ Len(history) = 2
    /\ history[1] # history[2]

-----------------------------------------------------------------------------
(* C5 *)

\* C5: ids strictly decrease from the head of the history to its tail, for
\* every non-decreasing clock.
C5_IdsStrictlyDecrease ==
    \A i, j \in 1..Len(history) : i < j => history[i].id > history[j].id

-----------------------------------------------------------------------------
(* C6 *)

\* C6: no step of a generation attempt other than its successful end, and
\* in particular no failing end (client not set, stream failure at any
\* point, empty or malformed structured response), changes the history list
\* or the storage slot.
C6_FailureLeavesHistory ==
    [][(FailedAttempt \/ GenerateStart
            \/ StreamChunk(Fragment(Len(delivered) + 1)))
         => UNCHANGED <<history, storage>>]_vars

\* A stream has failed after delivering a fragment, with an entry in the
\* history and in the slot.
C6_Witness ==
    /\ ~loading
    /\ error = Some(GenericPrefix \o StreamFailedMsg)
    /\ output # <<>>
    /\ history # <<>>
    /\ storage = Some(Stringify(history))

-----------------------------------------------------------------------------
(* C7 *)

\* C7: an empty text of the remote service makes the structured call fail
\* with the empty-response error, a text that is not JSON with the
\* malformed-response error, and the caller sees which.
C7_EmptyAndMalformedDiffer ==
    [][/\ StructuredSettled(Answer(""))
            => error' = Some(GenericPrefix \o EmptyResponseMsg)
       /\ StructuredSettled(Answer("oops"))
            => error' = Some(GenericPrefix \o ParseFailedMsg)]_vars

-----------------------------------------------------------------------------
(* C8 *)

\* C8: while a stream is being consumed the output is the concatenation of
\* the fragments delivered so far, in delivery order, and so it is when
\* the stream ends.
C8_OutputIsConcatenation ==
    gen.pc = "stream" => output = Concat(delivered)

-----------------------------------------------------------------------------
(* C9 *)

\* C9: clearHistory confirmed empties the history list and removes the
\* storage slot, so that a load from storage then yields the empty list;
\* declined, it leaves the list and the slot as they were.
C9_ClearHistory ==
    [][/\ ClearHistory(TRUE)
            => /\ history' = <<>>
               /\ storage' = Null
               /\ LoadHistoryFromStorage(<<>>, storage') = <<>>
               /\ LoadHistoryFromStorage(history', storage') = <<>>
       /\ ClearHistory(FALSE) => UNCHANGED <<history, storage>>]_vars

\* The output of a successful stream is still shown, and the history it
\* was saved to has been cleared.
C9_Witness ==
    /\ ~loading
    /\ error = Null
    /\ output # <<>>
    /\ history = <<>>
    /\ storage = Null

-----------------------------------------------------------------------------
(* C10 *)

\* The message generate() is to show for a failure text of the remote call.
ExpectedDisplay(message) ==
    IF Includes(message, <<"token count exceeds">>)
       \/ Includes(message, <<"400">>)
    THEN ContextTooLargeMsg
    ELSE GenericPrefix \o message

\* C10: a failed remote call whose failure text contains "token count
\* exceeds" or "400" sets the error to the context-too-large message; any
\* other failure text is shown after the generic prefix.
C10_FailureTextIsTranslated ==
    [][\A message \in RemoteFailures :
          (StreamFail(message) \/ StructuredSettled(Failed(message)))
              => error' = Some(ExpectedDisplay(message))]_vars


\* C11: with the client not set, no generate() issues a request or is
\* delivered a fragment: one that passes its guard fails at once with the
\* "not initialized" message of the service, on the streaming and on the
\* structured path alike, and leaves the error set and loading cleared.
C11_UninitializedFailsBeforeRequest ==
    /\ [](~ai => /\ outstanding = 0
                 /\ request = Null
                 /\ delivered = <<>>
                 /\ ~loading)
    /\ [][(~ai /\ CanGenerate /\ (GenerateUninitialized \/ GenerateStart))
             => /\ error' = Some(GenericPrefix \o NotInitializedMsg)
                /\ ~loading'
                /\ UNCHANGED <<outstanding, request, delivered, history,
                               storage>>]_vars

\* The structured path has failed for want of a client.
C11_Witness ==
    /\ ~ai
    /\ selectedFeature = "Optimize Query"
    /\ error = Some(GenericPrefix \o NotInitializedMsg)
    /\ ~loading
    /\ outstanding = 0

-----------------------------------------------------------------------------
(* The prompt builder over every feature *)

\* What the form holds when the user asks for a generation: any of the five
\* features, a context that is empty, blank or not, an input that is blank
\* or not.  The letters of the context are not letters of the input.
PromptFeatures == {features[i] : i \in 1..Len(features)}
PromptContexts == {<<>>, <<" ">>, <<"s">>}

InitPrompts ==
    /\ selectedFeature \in PromptFeatures
    /\ selectedDb \in DbInputs
    /\ schemaContext \in PromptContexts
    /\ uploadedFileName = <<>>
    /\ userInput \in UserInputs
    /\ output = <<>>
    /\ optimizationResult = Null
    /\ loading = FALSE
    /\ error = Null
    /\ storage = Null
    /\ history = LoadHistoryFromStorage(<<>>, storage)
    /\ ai = TRUE
    /\ now = 1
    /\ gen = NoGen
    /\ delivered = <<>>
    /\ outstanding = 0
    /\ request = Null
    /\ edits = 0
    /\ base = Len(history)
    /\ appended = 0

\* The generations of such a form, with no other event of the user.
NextPrompts ==
    \/ GenerateReturn
    \/ GenerateStart
    \/ StreamChunk(Fragment(Len(delivered) + 1))
    \/ StreamEnd
    \/ \E message \in RemoteFailures : StreamFail(message)
    \/ \E remote \in Remotes : StructuredSettled(remote)

SpecPrompts == InitPrompts /\ [][NextPrompts]_vars

\* C12: the prompt of every request holds no context block when the schema
\* context it was built from is empty or blank, and holds that context's
\* text verbatim when it is not.
C12_PromptCarriesContext ==
    request # Null =>
        IF Trim(gen.schema) = <<>>
        THEN ~Includes(request[1].contents, ContextHeader)
        ELSE Includes(request[1].contents, gen.schema)

\* C13: selectFeature(f), from any state of the session, sets the feature
\* to f, empties userInput and output, unsets error and optimizationResult,
\* empties schemaContext and uploadedFileName, and leaves the dialect, the
\* history and the loading flag as they were.
C13_SelectFeatureResets ==
    [][\A f \in FeatureInputs :
          SelectFeature(f)
              => /\ selectedFeature' = f
                 /\ userInput' = <<>>
                 /\ output' = <<>>
                 /\ error' = Null
                 /\ optimizationResult' = Null
                 /\ schemaContext' = <<>>
                 /\ uploadedFileName' = <<>>
                 /\ UNCHANGED <<selectedDb, history, loading>>]_vars

\* A feature was selected while a generation was running and the history
\* held an entry.
C13_Witness ==
    /\ selectedFeature = "Optimize Query"
    /\ userInput = <<>>
    /\ loading
    /\ history # <<>>

\* C14: when the write of the storage slot fails during an append (the slot
\* is left as it was and does not hold the new list), the append still
\* succeeds: the new entry is at the head of the in-memory history, the
\* error is not touched (unset stays unset), and the generation ends with
\* loading cleared and no request outstanding.
C14_FailedWriteStillAppends ==
    [][(SucceededAttempt /\ storage' # Some(Stringify(history')))
          => /\ storage' = storage
             /\ Len(history') = Len(history) + 1
             /\ Tail(history') = history
             /\ history'[1].userInput = gen.input
             /\ history'[1].feature = gen.feature
             /\ error' = error
             /\ ~loading'
             /\ outstanding' = 0]_vars

\* A generation has succeeded on an empty slot whose write failed: the
\* entry is in memory, the slot is still empty, no error is shown.
C14_Witness ==
    /\ history # <<>>
    /\ storage = Null
    /\ appended = 1
    /\ error = Null
    /\ ~loading

-----------------------------------------------------------------------------
(* The load on startup, over every content of the slot *)

\* A slot written by something else: JSON that parses, a list, but not a
\* list of history entries.
ForeignList == <<[a |-> 1]>>

LoadSlots == InitialSlots \cup {Some(Stringify(ForeignList))}

InitLoad ==
    /\ selectedFeature = features[1]
    /\ selectedDb = databases[1]
    /\ schemaContext = <<>>
    /\ uploadedFileName = <<>>
    /\ userInput = <<>>
    /\ output = <<>>
    /\ optimizationResult = Null
    /\ loading = FALSE
    /\ error = Null
    /\ storage \in LoadSlots
    /\ history = LoadHistoryFromStorage(<<>>, storage)
    /\ ai \in BOOLEAN
    /\ now = 1
    /\ gen = NoGen
    /\ delivered = <<>>
    /\ outstanding = 0
    /\ request = Null
    /\ edits = 0
    /\ base = Len(history)
    /\ appended = 0

\* The events that do not read the entries of the history.
NextLoad ==
    \/ Constructor
    \/ \E s \in UserInputs : SetUserInput(s)
    \/ \E d \in DbInputs : SetSelectedDb(d)
    \/ \E s \in ContextInputs : SetSchemaContext(s)
    \/ \E f \in FeatureInputs : SelectFeature(f)
    \/ \E text \in ContextInputs, name \in FileNames : ReaderOnLoad(text, name)
    \/ ReaderOnError
    \/ ClearSchemaContext
    \/ \E confirmed \in BOOLEAN : ClearHistory(confirmed)
    \/ GenerateReturn
    \/ GenerateUninitialized

SpecLoad == InitLoad /\ [][NextLoad]_vars

\* The fields of a history entry, and a list of such entries.
EntryFields == DOMAIN OldEntry
IsHistoryList(v) == \A i \in 1..Len(v) : DOMAIN v[i] = EntryFields

\* The history a fail-safe load gives for a slot.
ExpectedLoad(slot) ==
    IF slot # Null /\ slot[1].json /\ IsHistoryList(slot[1].value)
    THEN slot[1].value
    ELSE <<>>

\* C15: after the load on startup the history is the list stored in the
\* slot, or the empty list when the slot is absent or does not hold a
\* valid serialized history list; and no error is shown.
C15_LoadIsFailSafe ==
    /\ [](edits = 0 => history = ExpectedLoad(storage) /\ error = Null)
    /\ [][Constructor
            => history' = ExpectedLoad(storage) /\ error' = Null]_vars

-----------------------------------------------------------------------------
(* C16 *)

\* A step of the running generation: a chunk arrives, or the attempt ends.
GenerationStep ==
    \/ StreamChunk(Fragment(Len(delivered) + 1))
    \/ SucceededAttempt
    \/ FailedAttempt

\* C16: while loading is set, only the running generation changes the
\* output and the history: no event of the user does (a reload of the page,
\* which ends the session, aside).
C16_OnlyGenerationWritesWhileLoading ==
    [][(loading /\ ~GenerationStep /\ ~Constructor)
          => UNCHANGED <<output, history>>]_vars

-----------------------------------------------------------------------------
(* C17 *)

\* C17: when the stream fails after delivering k >= 0 fragments, the output
\* is the concatenation of those k fragments, the error is the message of
\* the failed stream behind the generic prefix, and loading is cleared.
C17_StreamFailureKeepsOutput ==
    [][\A message \in RemoteFailures :
          StreamFail(message)
              => /\ output' = Concat(delivered)
                 /\ error' = Some(GenericPrefix \o StreamFailedMsg)
                 /\ ~loading']_vars

-----------------------------------------------------------------------------
(* C18 *)

\* The remote call ends: the stream ends or fails, the structured call
\* settles.  The rest of generate() runs in the same turn.
RemoteEnds ==
    \/ StreamEnd
    \/ \E message \in RemoteFailures : StreamFail(message)
    \/ \E remote \in Remotes : StructuredSettled(remote)

\* The remote service does not leave a call pending for ever.
LiveSpec == Spec /\ WF_vars(RemoteEnds)

\* C18: whenever loading is set it is cleared later, on success and on
\* every path of failure, given that the remote call ends.
C18_LoadingIsCleared == loading ~> ~loading

\* A structured call has failed and loading is cleared.
C18_Witness ==
    /\ ~loading
    /\ error = Some(GenericPrefix \o ParseFailedMsg)
    /\ gen = NoGen

-----------------------------------------------------------------------------
(* C19 *)

\* C19: loadHistoryItem(entry) copies the entry's feature, dialect,
\* userInput, schemaContext, uploadedFileName, output and
\* optimizationResult into the session and unsets the error; it leaves the
\* history and the storage slot as they were and starts no generation:
\* loading is unchanged and no request is issued.
C19_LoadHistoryItemCopies ==
    [][\A i \in 1..Len(history) :
          LoadHistoryItem(history[i])
              => /\ selectedFeature' = history[i].feature
                 /\ selectedDb' = history[i].db
                 /\ userInput' = history[i].userInput
                 /\ schemaContext' = history[i].schemaContext
                 /\ uploadedFileName' = history[i].uploadedFileName
                 /\ output' = history[i].output
                 /\ optimizationResult' = history[i].optimizationResult
                 /\ error' = Null
                 /\ UNCHANGED <<history, storage, loading, outstanding,
                                request, gen>>]_vars

\* An entry of an earlier visit has been loaded into a session that had
\* generated nothing.
C19_Witness ==
    /\ appended = 0
    /\ ~loading
    /\ error = Null
    /\ output # <<>>
    /\ \E i \in 1..Len(history) :
          /\ userInput = history[i].userInput
          /\ output = history[i].output
          /\ selectedFeature = history[i].feature

-----------------------------------------------------------------------------
(* C20 *)

\* C20: a generation that starts empties the output and unsets the error
\* and the optimizationResult with the request not yet issued; from then
\* to the end of the attempt the output stays empty on the Optimize Query
\* path, and the optimizationResult stays unset on the streaming path.
C20_StartResetsAndPathsStayApart ==
    /\ [][(GenerateStart /\ outstanding = 0)
             => /\ output' = <<>>
                /\ error' = Null
                /\ optimizationResult' = Null]_vars
    /\ [](gen.pc = "structured" => output = <<>>)
    /\ [](gen.pc = "stream" => optimizationResult = Null)

-----------------------------------------------------------------------------
(* C21 *)

\* C21: generate() with an input that is empty or blank changes nothing,
\* in every state of the session: loading is not set, output, error and
\* optimizationResult are not cleared, no request is issued and no entry
\* is appended to the history or written to the slot.
C21_BlankInputIsNoop ==
    [][(Trim(userInput) = <<>>
           /\ (GenerateReturn \/ GenerateStart \/ GenerateUninitialized))
          => /\ UNCHANGED <<loading, output, error, optimizationResult>>
             /\ UNCHANGED <<outstanding, request, history, storage>>
             /\ UNCHANGED vars]_vars

\* The input is blank, not empty, and the session shows an output that a
\* generate() would have cleared.
C21_Witness ==
    /\ userInput # <<>>
    /\ Trim(userInput) = <<>>
    /\ output # <<>>
    /\ ~loading
    /\ outstanding = 0

-----------------------------------------------------------------------------
(* C22 *)

\* The entry's selections are those generate() read when it started.
C22_SelectionsOfStart ==
    [][SucceededAttempt
          => /\ history'[1].feature = gen.feature
             /\ history'[1].db = gen.db
             /\ history'[1].userInput = gen.input
             /\ history'[1].schemaContext = gen.schema]_vars

\* The entry's file name is the one shown when the generation started.
C22_FileNameOfStart ==
    [][SucceededAttempt => history'[1].uploadedFileName = gen.fileName]_vars

\* The entry's output is what the stream of that generation delivered.
C22_OutputOfStream ==
    [][(SucceededAttempt /\ gen.pc = "stream")
          => history'[1].output = Concat(delivered)]_vars

\* C22: the entry a successful generate() appends is a snapshot of the
\* session as it was when that generation started: feature, dialect,
\* userInput, schemaContext and uploadedFileName are the values held at the
\* start, and the output is the concatenation of the fragments the stream
\* of that generation delivered, whatever the user does in between.
C22_EntryIsSnapshotOfStart ==
    /\ C22_SelectionsOfStart
    /\ C22_FileNameOfStart
    /\ C22_OutputOfStream

-----------------------------------------------------------------------------
(* C23 *)

\* The slot agrees with the history: it holds the serialization of the
\* whole list, or it is absent and the list is empty.
Agreement ==
    IF storage = Null THEN history = <<>>
    ELSE storage = Some(Stringify(history))

\* The slot is absent or holds a serialized history list.
ValidSlot == storage = Null \/ storage[1].json

\* C23: after the load on startup of a valid slot, after an append whose
\* write succeeded (the slot was written) and after a confirmed clear, the
\* slot agrees with the in-memory history; it is absent after the clear
\* and present after the append.
C23_SlotAgreesWithHistory ==
    /\ []((edits = 0 /\ ValidSlot) => Agreement)
    /\ [][(Constructor /\ ValidSlot) => Agreement']_vars
    /\ [][(SucceededAttempt /\ storage' # storage)
             => Agreement' /\ storage' # Null]_vars
    /\ [][ClearHistory(TRUE) => Agreement' /\ storage' = Null]_vars

\* A generation has succeeded on a history loaded from the slot, and the
\* slot holds both entries.
C23_Witness ==
    /\ appended = 1
    /\ Len(history) = 2
    /\ storage = Some(Stringify(history))
    /\ ~loading

====
